---- MODULE Spec2Model ----
(***************************************************************************)
(* Asymmetric-padding rewrite passes of the CUDA plugin                    *)
(* (convolution_asym_padding_transformation.cpp) and the shape/type        *)
(* inference of the FusedConvBackpropData node                             *)
(* (fused_convolution_backprop_data.cpp).                                  *)
(*                                                                         *)
(* The specifications of the module:                                       *)
(*   SpecShape  calls infer_conv_backprop_output_spatial_shape             *)
(*   SpecFused  constructs, re-validates and clones FusedConvBackpropData  *)
(*   Spec       runs one matcher pass over small graphs                    *)
(*   SpecFair   Spec under the scheduling of the rewrite engine            *)
(*   SpecPasses runs the five passes, in any order, over two-node chains   *)
(***************************************************************************)
EXTENDS Integers, Sequences, FiniteSets, TLC

VARIABLES shape_call, fnode, fclone, nodes, pass, phase, nodes_to_run, last, runlog, rewrites,
          passes_left, reference

vars == <<shape_call, fnode, fclone, nodes, pass, phase, nodes_to_run, last, runlog, rewrites,
          passes_left, reference>>

(***************************************************************************)
(* Bounds of the explored inputs.                                          *)
(***************************************************************************)
\* largest static spatial length of a data tensor
MaxLen == 2
\* pads are drawn from -MaxPad .. MaxPad (CoordinateDiff entries are signed)
MaxPad == 1
\* runs of a pass over one graph
MaxRuns == 2

\* filter lengths, strides, dilations and output paddings explored
FilterLens == {1, 2}
StrideVals == {1, 2}
OutPadVals == {0, 1}
PadVals == (0 - MaxPad) .. MaxPad
\* pads of the calls of the shape function: large enough for the formula to
\* fall below -1
ShapePadVals == (0 - MaxPad) .. (MaxPad + 1)
DataLens == 1 .. MaxLen

(***************************************************************************)
(* Dimensions and partial shapes.                                          *)
(***************************************************************************)
\* ngraph::Dimension::dynamic(): the unknown dimension.  It is no length:
\* the model gives it a value that no computed length takes.
DYN == -1000

\* The conversion int64_t -> ngraph::Dimension applied by
\* output_spatial_shape.push_back(val): the value -1 denotes the dynamic
\* dimension, any other negative value is clipped to 0 by the interval.
Dimension(val) == IF val = -1 THEN DYN ELSE IF val < 0 THEN 0 ELSE val

\* A PartialShape: rank known (rk) with dimensions d, or rank unknown.
PS(dims) == [rk |-> TRUE, d |-> dims]
DynamicRank == [rk |-> FALSE, d |-> <<>>]
\* PartialShape::dynamic(rank)
DynamicOfRank(r) == IF r.rk THEN PS([i \in 1 .. Len(r.d) |-> DYN]) ELSE DynamicRank
IsStaticShape(ps) == ps.rk /\ \A i \in 1 .. Len(ps.d) : ps.d[i] # DYN
IsDynamicShape(ps) == ~IsStaticShape(ps)

Fill(n, v) == [i \in 1 .. n |-> v]
\* the elements of s after the first k
DropFirst(s, k) == [i \in 1 .. (Len(s) - k) |-> s[i + k]]

(***************************************************************************)
(* FusedConvBackpropData::infer_conv_backprop_output_spatial_shape         *)
(***************************************************************************)
\* mutant: the pads are added instead of subtracted
InferDimWrongSign(L, F, S, D, pb, pe, op) ==
    IF L # DYN /\ F # DYN
    THEN Dimension(S * (L - 1) + D * (F - 1) + 1 + pb + pe + op)
    ELSE DYN

\* One iteration of the loop at lines 249-258.
InferDim(L, F, S, D, pb, pe, op) ==
    IF L # DYN /\ F # DYN
    THEN Dimension(S * (L - 1) + D * (F - 1) + 1 - pb - pe + op)
    ELSE DYN

infer_conv_backprop_output_spatial_shape(input_data_shape, filters_shape, strides, dilations, pads_begin, pads_end, output_padding) ==
    LET num_spatial_dims == Len(input_data_shape) IN
    IF ~(/\ Len(filters_shape) = num_spatial_dims
         /\ Len(strides) = num_spatial_dims
         /\ Len(dilations) = num_spatial_dims
         /\ Len(pads_begin) = num_spatial_dims
         /\ Len(pads_end) = num_spatial_dims
         /\ Len(output_padding) = num_spatial_dims)
    THEN [ok |-> FALSE, dims |-> <<>>]
    ELSE [ok |-> TRUE,
          dims |-> [i \in 1 .. num_spatial_dims |->
                       InferDim(input_data_shape[i], filters_shape[i], strides[i],
                                dilations[i], pads_begin[i], pads_end[i],
                                output_padding[i])]]

(***************************************************************************)
(* Element types.                                                          *)
(***************************************************************************)
ElementTypes == {"f32", "f16", "dynamic"}

\* ngraph::element::Type::merge as used at line 102: a dynamic type merges
\* with anything, two static types merge only when equal.
MergeOk(t1, t2) == t1 = "dynamic" \/ t2 = "dynamic" \/ t1 = t2
MergeType(t1, t2) == IF t1 = "dynamic" THEN t2 ELSE t1

(***************************************************************************)
(* FusedConvBackpropData.  A node is a record                              *)
(*   ins            the outputs feeding the node, each                     *)
(*                  [shape, et, is_const, value]                           *)
(*   strides, dilations, pads_begin, pads_end, auto_pad, output_padding    *)
(*   add_shape, add_type   captured from the add input at construction     *)
(*   out_shape, out_et     output 0                                        *)
(*   status         "ok", "validation_error" (NODE_VALIDATION_CHECK /      *)
(*                  NGRAPH_CHECK threw) or "expects_failed" (gsl Expects   *)
(*                  terminated)                                            *)
(***************************************************************************)
AutoPads == {"EXPLICIT", "SAME_UPPER", "SAME_LOWER", "VALID"}

Src(shape, et, is_const, value) == [shape |-> shape, et |-> et, is_const |-> is_const, value |-> value]

\* bool is_output_shape_present = inputs().size() == 3;  (lines 97 and 223)
is_output_shape_present(n) == Len(n.ins) = 3

\* FusedConvBackpropData::get_output_shape
get_output_shape(n) ==
    LET data_pshape == n.ins[1].shape
        shape == IF data_pshape.rk
                 THEN PS(Fill(Len(data_pshape.d) - 2, DYN))
                 ELSE PS(Fill(Len(n.strides), DYN))
    IN  IF is_output_shape_present(n)
        THEN IF n.ins[3].is_const THEN PS(n.ins[3].value) ELSE DynamicRank
        ELSE shape

\* ngraph::opset1::infer_conv_backprop_auto_padding, called at lines 157-166
\* (one spatial dimension): the total padding that makes the transposed
\* convolution produce out, split with the larger half at the begin for
\* SAME_UPPER and at the end for SAME_LOWER.
AutoPadTotal(L, F, S, D, out, op) ==
    LET t == S * (L - 1) + D * (F - 1) + 1 - out + op IN IF t < 0 THEN 0 ELSE t

AutoPadBegin(auto_pad, total) ==
    IF auto_pad # "SAME_UPPER" THEN total \div 2 ELSE total - (total \div 2)

AutoPadEnd(auto_pad, total) ==
    IF auto_pad # "SAME_UPPER" THEN total - (total \div 2) ELSE total \div 2

\* Lines 109-139: default-fill of unset attributes and the size checks.
FillDefaults(n) ==
    LET data_pshape == n.ins[1].shape
        filters_pshape == n.ins[2].shape
        nsd == Len(data_pshape.d) - 2
    IN  IF data_pshape.rk /\ filters_pshape.rk
        THEN LET m == [n EXCEPT
                         !.pads_begin = IF Len(@) = 0 THEN Fill(nsd, 0) ELSE @,
                         !.pads_end = IF Len(@) = 0 THEN Fill(nsd, 0) ELSE @,
                         !.output_padding = IF Len(@) = 0 THEN Fill(nsd, 0) ELSE @,
                         !.strides = IF Len(@) = 0 THEN Fill(nsd, 1) ELSE @,
                         !.dilations = IF Len(@) = 0 THEN Fill(nsd, 1) ELSE @]
             IN  IF /\ Len(m.strides) = nsd
                    /\ Len(m.dilations) = nsd
                    /\ Len(m.output_padding) = nsd
                 THEN m
                 ELSE [m EXCEPT !.status = "validation_error"]
        ELSE n

\* Lines 142-176: the branch taken when is_output_shape_present.
WithOutputShape(n, output_pshape) ==
    LET data_pshape == n.ins[1].shape
        filters_pshape == n.ins[2].shape
        nsd == Len(data_pshape.d) - 2
        same == n.auto_pad \in {"SAME_UPPER", "SAME_LOWER"}
        total(i) == AutoPadTotal(data_pshape.d[i + 2], filters_pshape.d[i + 2], n.strides[i], n.dilations[i], output_pshape.d[i], n.output_padding[i])
    IN  IF IsStaticShape(output_pshape) /\ IsStaticShape(filters_pshape) /\ IsStaticShape(data_pshape)
        THEN IF Len(output_pshape.d) # nsd
             THEN [n EXCEPT !.status = "validation_error"]
             ELSE IF same /\ ~(/\ Len(filters_pshape.d) - 2 = nsd
                               /\ Len(n.pads_begin) = nsd
                               /\ Len(n.pads_end) = nsd)
             THEN [n EXCEPT !.status = "validation_error"]
             ELSE [n EXCEPT
                     !.pads_begin = IF same THEN [i \in 1 .. nsd |-> AutoPadBegin(n.auto_pad, total(i))] ELSE @,
                     !.pads_end = IF same THEN [i \in 1 .. nsd |-> AutoPadEnd(n.auto_pad, total(i))] ELSE @,
                     !.out_shape = PS(<<data_pshape.d[1], filters_pshape.d[2]>> \o output_pshape.d)]
        ELSE [n EXCEPT !.out_shape = output_pshape]

\* Lines 179-207: the branch taken otherwise.
WithoutOutputShape(n) ==
    LET data_pshape == n.ins[1].shape
        filters_pshape == n.ins[2].shape
        zero == n.auto_pad \in {"SAME_UPPER", "SAME_LOWER", "VALID"}
        m == [n EXCEPT !.pads_begin = IF zero THEN Fill(Len(@), 0) ELSE @,
                       !.pads_end = IF zero THEN Fill(Len(@), 0) ELSE @]
        spatial == infer_conv_backprop_output_spatial_shape(DropFirst(data_pshape.d, 2), DropFirst(filters_pshape.d, 2), m.strides, m.dilations, m.pads_begin, m.pads_end, m.output_padding)
    IN  IF data_pshape.rk /\ IsStaticShape(filters_pshape)
        THEN IF spatial.ok
             THEN [m EXCEPT !.out_shape = PS(<<data_pshape.d[1], filters_pshape.d[2]>> \o spatial.dims)]
             ELSE [m EXCEPT !.status = "validation_error"]
        ELSE [m EXCEPT !.out_shape = DynamicOfRank(data_pshape)]

\* Lines 141-207: the two branches, entered once the size checks passed.
InferOutputShape(f, output_pshape) ==
    IF f.status # "ok" THEN f
    ELSE IF is_output_shape_present(f)
    THEN WithOutputShape(f, output_pshape)
    ELSE WithoutOutputShape(f)

\* Line 211: set_output_type(0, result_et, result_shape)
set_output_type(r, result_et) == IF r.status # "ok" THEN r ELSE [r EXCEPT !.out_et = result_et]

\* FusedConvBackpropData::conv_validate_and_infer_types
conv_validate_and_infer_types(n) ==
    LET delta_et == n.ins[1].et
        filters_et == n.ins[2].et
    IN  IF ~MergeOk(delta_et, filters_et)
        THEN [n EXCEPT !.status = "validation_error"]
        ELSE set_output_type(InferOutputShape(FillDefaults(n), get_output_shape(n)), MergeType(delta_et, filters_et))

\* Line 266: Expects(element_type == add_type_)
ExpectsAddType(r) ==
    IF r.status # "ok" THEN r
    ELSE IF r.out_et # r.add_type THEN [r EXCEPT !.status = "expects_failed"]
    ELSE r

\* mutant: the element type of the add input is not compared
validate_and_infer_types_no_expects(n) == conv_validate_and_infer_types([n EXCEPT !.status = "ok"])

\* FusedConvBackpropData::validate_and_infer_types
validate_and_infer_types(n) == ExpectsAddType(conv_validate_and_infer_types([n EXCEPT !.status = "ok"]))

\* ov::Output::get_shape() / ov::PartialShape::to_shape(): defined for a
\* static shape only: on a dynamic shape the call throws.
GetShapeThrows(ps) == IsDynamicShape(ps)

\* The two constructors (lines 12-53): ins is <<data, filters, add>> or
\* <<data, filters, outputShape, add>>; add_shape_ and add_type_ are captured
\* from the add argument (add.get_shape() throws on a dynamic shape), then
\* constructor_validate_and_infer_types runs.
FusedConvBackpropData(ins, strides, pads_begin, pads_end, dilations, auto_pad, output_padding) ==
    LET n == [ins |-> ins, strides |-> strides, pads_begin |-> pads_begin, pads_end |-> pads_end,
              dilations |-> dilations, auto_pad |-> auto_pad, output_padding |-> output_padding,
              add_shape |-> ins[Len(ins)].shape, add_type |-> ins[Len(ins)].et,
              out_shape |-> DynamicRank, out_et |-> "dynamic", status |-> "ok"]
    IN  IF GetShapeThrows(ins[Len(ins)].shape)
        THEN [n EXCEPT !.status = "validation_error"]
        ELSE validate_and_infer_types(n)

\* mutant: the clone is built from zero pads, not from the node's own
clone_with_zero_pads(n, new_args) ==
    IF Len(new_args) # Len(n.ins)
    THEN [n EXCEPT !.status = "validation_error", !.ins = new_args]
    ELSE FusedConvBackpropData(new_args, n.strides, Fill(Len(n.pads_begin), 0), Fill(Len(n.pads_end), 0), n.dilations, n.auto_pad, n.output_padding)

\* FusedConvBackpropData::clone_with_new_inputs: check_new_args_count throws
\* unless new_args has as many entries as the node has inputs.
clone_with_new_inputs(n, new_args) ==
    IF Len(new_args) # Len(n.ins)
    THEN [n EXCEPT !.status = "validation_error", !.ins = new_args]
    ELSE FusedConvBackpropData(new_args, n.strides, n.pads_begin, n.pads_end, n.dilations, n.auto_pad, n.output_padding)

(***************************************************************************)
(* The graph.  nodes is the arena: a sequence of node records, a node's id *)
(* being its index; inputs holds the ids of the nodes whose output 0 feeds *)
(* the node.  A node that no Result reaches is not part of the graph.      *)
(***************************************************************************)
Blank(kind, inputs, name) ==
    [kind |-> kind, inputs |-> inputs, name |-> name, rt_info |-> "",
     strides |-> <<>>, dilations |-> <<>>, pads_begin |-> <<>>, pads_end |-> <<>>,
     auto_pad |-> "", output_padding |-> <<>>, add_type |-> "", pad_mode |-> "",
     begin_mask |-> <<>>, end_mask |-> <<>>, value |-> <<>>,
     out_shape |-> DynamicRank, out_et |-> "dynamic"]

Parameter(shape, et, name) == [Blank("Parameter", <<>>, name) EXCEPT !.out_shape = shape, !.out_et = et]

\* std::make_shared<ov::op::v0::Constant>(type, ov::Shape{size}, data)
Constant(et, value) == [Blank("Constant", <<>>, "") EXCEPT !.out_shape = PS(<<Len(value)>>), !.out_et = et, !.value = value]

\* ov::op::v0::Constant::create(type, ov::Shape{}, {0}): a scalar
ScalarConstant(et, v) == [Blank("Constant", <<>>, "") EXCEPT !.out_shape = PS(<<>>), !.out_et = et, !.value = <<v>>]

\* the output 0 of node id of graph g, as an input sees it
SrcOf(g, id) == Src(g[id].out_shape, g[id].out_et, g[id].kind = "Constant", g[id].value)
InsOf(g, inputs) == [i \in 1 .. Len(inputs) |-> SrcOf(g, inputs[i])]

ForwardKinds == {"Convolution", "GroupConvolution"}
BackpropKinds == {"ConvolutionBackpropData", "GroupConvolutionBackpropData", "FusedConvBackpropData"}

(***************************************************************************)
(* Shape inference of the nodes the callbacks construct.                   *)
(***************************************************************************)
\* ov::op::v1::Pad in CONSTANT mode over data with constant pads: every
\* dimension grows by its two pads.
PadShape(data, pads_begin, pads_end) ==
    IF ~data.rk THEN DynamicRank
    ELSE PS([i \in 1 .. Len(data.d) |-> IF data.d[i] = DYN THEN DYN ELSE data.d[i] + pads_begin[i] + pads_end[i]])

PadValid(data, pads_begin, pads_end) ==
    data.rk => /\ Len(pads_begin) = Len(data.d)
               /\ Len(pads_end) = Len(data.d)
               /\ \A i \in 1 .. Len(data.d) : data.d[i] # DYN => data.d[i] + pads_begin[i] + pads_end[i] >= 0

\* One spatial dimension of a forward convolution: the padded length must
\* be positive and hold the dilated window.
FwdDimValid(L, F, S, D, pb, pe) == L + pb + pe >= 1 /\ D * (F - 1) + 1 <= L + pb + pe
FwdDim(L, F, S, D, pb, pe) == ((L + pb + pe - (D * (F - 1) + 1)) \div S) + 1

\* The filters of a grouped convolution [G, C_OUT/G, C_IN/G, spatial...] as
\* the filters [C_OUT, C_IN, spatial...] of the equivalent plain one, and of
\* a grouped backprop [G, C_IN/G, C_OUT/G, spatial...] as [C_IN, C_OUT, ...].
UngroupFwd(fs) == IF fs.rk THEN PS(<<fs.d[1] * fs.d[2], fs.d[3]>> \o DropFirst(fs.d, 3)) ELSE fs
UngroupBwd(fs) == IF fs.rk THEN PS(<<fs.d[1] * fs.d[2], fs.d[1] * fs.d[3]>> \o DropFirst(fs.d, 3)) ELSE fs

\* ov::op::v1::Convolution / GroupConvolution with static data and filters:
\* the output shape, or a validation error.
ForwardConv(kind, g, inputs, strides, pads_begin, pads_end, dilations, auto_pad, name) ==
    LET data == g[inputs[1]].out_shape
        filters == IF kind = "GroupConvolution" THEN UngroupFwd(g[inputs[2]].out_shape) ELSE g[inputs[2]].out_shape
        nsd == Len(data.d) - 2
        static == IsStaticShape(data) /\ IsStaticShape(filters)
        ok == /\ Len(strides) = nsd /\ Len(dilations) = nsd /\ Len(pads_begin) = nsd /\ Len(pads_end) = nsd
              /\ \A i \in 1 .. nsd : FwdDimValid(data.d[i + 2], filters.d[i + 2], strides[i], dilations[i], pads_begin[i], pads_end[i])
        n == [Blank(kind, inputs, name) EXCEPT !.strides = strides, !.dilations = dilations,
                 !.pads_begin = pads_begin, !.pads_end = pads_end, !.auto_pad = auto_pad,
                 !.out_et = g[inputs[1]].out_et]
    IN  IF ~static THEN [status |-> "ok", node |-> [n EXCEPT !.out_shape = DynamicOfRank(data)]]
        ELSE IF ok
        THEN [status |-> "ok",
              node |-> [n EXCEPT !.out_shape = PS(<<data.d[1], filters.d[1]>> \o
                          [i \in 1 .. nsd |-> FwdDim(data.d[i + 2], filters.d[i + 2], strides[i], dilations[i], pads_begin[i], pads_end[i])])]]
        ELSE [status |-> "validation_error", node |-> n]

\* A backprop node of the graph from the record its shape inference yields.
FromInferred(kind, inputs, name, r) ==
    [status |-> r.status,
     node |-> [Blank(kind, inputs, name) EXCEPT !.strides = r.strides, !.dilations = r.dilations,
                  !.pads_begin = r.pads_begin, !.pads_end = r.pads_end, !.auto_pad = r.auto_pad,
                  !.output_padding = r.output_padding, !.add_type = r.add_type,
                  !.out_shape = r.out_shape, !.out_et = r.out_et]]

\* The inference record of a backprop node of the graph.
Inferred(g, n) ==
    [ins |-> IF n.kind = "GroupConvolutionBackpropData"
             THEN [InsOf(g, n.inputs) EXCEPT ![2].shape = UngroupBwd(@)]
             ELSE InsOf(g, n.inputs),
     strides |-> n.strides, pads_begin |-> n.pads_begin, pads_end |-> n.pads_end,
     dilations |-> n.dilations, auto_pad |-> n.auto_pad, output_padding |-> n.output_padding,
     add_shape |-> DynamicRank, add_type |-> n.add_type,
     out_shape |-> n.out_shape, out_et |-> n.out_et, status |-> "ok"]

\* std::make_shared<TBaseConvolution>(...) of the backprop callback.  The
\* fused node runs its own constructor; ConvolutionBackpropData and
\* GroupConvolutionBackpropData (inputs data, filters[, output_shape]) infer
\* their shape by the algorithm the fused node took over from them, in
\* which three inputs do mean that the output shape is given.
BackpropConv(kind, g, inputs, strides, pads_begin, pads_end, dilations, auto_pad, output_padding, name) ==
    LET ins == InsOf(g, inputs)
        lib == [ins |-> IF kind = "GroupConvolutionBackpropData" THEN [ins EXCEPT ![2].shape = UngroupBwd(@)] ELSE ins,
                strides |-> strides, pads_begin |-> pads_begin, pads_end |-> pads_end,
                dilations |-> dilations, auto_pad |-> auto_pad, output_padding |-> output_padding,
                add_shape |-> DynamicRank, add_type |-> "",
                out_shape |-> DynamicRank, out_et |-> "dynamic", status |-> "ok"]
    IN  IF kind = "FusedConvBackpropData"
        THEN FromInferred(kind, inputs, name, FusedConvBackpropData(ins, strides, pads_begin, pads_end, dilations, auto_pad, output_padding))
        ELSE FromInferred(kind, inputs, name, conv_validate_and_infer_types(lib))

\* One dimension of ov::op::v1::StridedSlice with stride 1: a negative
\* bound counts from the end, bounds are clamped to the dimension, a mask
\* bit replaces the bound by the start or the end of the dimension.
SliceLower(dim, begin, masked) ==
    IF masked THEN 0
    ELSE LET lb == IF begin < 0 THEN (IF dim + begin < 0 THEN 0 ELSE dim + begin) ELSE begin
         IN  IF lb > dim THEN dim ELSE lb

SliceUpper(dim, end, masked) ==
    IF masked THEN dim
    ELSE LET ub == IF end < 0 THEN (IF dim + end < 0 THEN 0 ELSE dim + end) ELSE end
         IN  IF ub > dim THEN dim ELSE ub

SliceDim(dim, begin, end, bmask, emask) ==
    LET lb == SliceLower(dim, begin, bmask = 1)
        ub == SliceUpper(dim, end, emask = 1)
    IN  IF ub > lb THEN ub - lb ELSE 0

StridedSliceShape(data, begins, ends, begin_mask, end_mask) ==
    PS([i \in 1 .. Len(data.d) |-> SliceDim(data.d[i], begins[i], ends[i], begin_mask[i], end_mask[i])])

(***************************************************************************)
(* Graph mutation.                                                         *)
(***************************************************************************)
\* mutant: only the first consumer of target is rewired
ReplaceFirstConsumer(g, target, replacement) ==
    [i \in 1 .. Len(g) |->
        IF \E j \in 1 .. (i - 1) : \E k \in 1 .. Len(g[j].inputs) : g[j].inputs[k] = target
        THEN g[i]
        ELSE [g[i] EXCEPT !.inputs = [k \in 1 .. Len(g[i].inputs) |->
                                        IF g[i].inputs[k] = target THEN replacement ELSE g[i].inputs[k]]]]

\* ov::replace_node(target, replacement): every input fed by target is fed
\* by replacement instead.
ReplaceNode(g, target, replacement) ==
    [i \in 1 .. Len(g) |->
        [g[i] EXCEPT !.inputs = [k \in 1 .. Len(g[i].inputs) |->
                                    IF g[i].inputs[k] = target THEN replacement ELSE g[i].inputs[k]]]]

\* set_friendly_name(old->get_friendly_name()) and copy_runtime_info(old, new)
Renamed(new, old) == [new EXCEPT !.name = old.name, !.rt_info = old.rt_info]

RECURSIVE Closure(_, _)
Closure(g, S) ==
    LET T == S \cup {g[i].inputs[k] : i \in S, k \in 1 .. 4} IN
    IF T = S THEN S ELSE Closure(g, T)

\* the nodes of the graph: those some Result depends on
Live(g) == Closure([i \in 1 .. Len(g) |-> [inputs |-> [k \in 1 .. 4 |-> IF k <= Len(g[i].inputs) THEN g[i].inputs[k] ELSE i]]],
                   {i \in 1 .. Len(g) : g[i].kind = "Result"})

Consumers(g, id) == {i \in 1 .. Len(g) : \E k \in 1 .. Len(g[i].inputs) : g[i].inputs[k] = id}

(***************************************************************************)
(* The callbacks.  Each yields [ret, g]: ret is "false" (no rewrite),      *)
(* "true" (rewritten), "throw" (an exception left the callback) or         *)
(* "abort" (an Expects terminated the program), g the arena it leaves,     *)
(* line the source line at which the callback leaves.                      *)
(***************************************************************************)
\* mutant: the two zeros are appended, not prepended
add_two_zero_pads_after(pad) == pad \o <<0, 0>>

\* add_two_zero_pads (lines 18-24)
add_two_zero_pads(pad) == <<0, 0>> \o pad

\* mutant: pads are taken to be symmetric only when they are all zero
PadsEqualOnlyIfZero(pads_begin, pads_end) ==
    pads_begin = pads_end /\ \A i \in 1 .. Len(pads_begin) : pads_begin[i] = 0

\* mutant: no pads are taken to be symmetric, the callback never declines
PadsNeverEqual(pads_begin, pads_end) == FALSE

\* if (pads_begin == pads_end) return false;   (lines 40 and 89)
PadsEqual(pads_begin, pads_end) == pads_begin = pads_end

\* mutant: the replacement keeps the pads of the node it replaces
KeepPads(conv) == conv.pads_begin

\* const ov::CoordinateDiff zero_pads(pads_begin.size(), 0);  (lines 59, 128)
zero_pads(conv) == Fill(Len(conv.pads_begin), 0)

\* convolution_with_padding<TBaseConvolution>
convolution_with_padding(g, id) ==
    LET convolution == g[id]
        pads_begin == add_two_zero_pads(convolution.pads_begin)
        pads_end == add_two_zero_pads(convolution.pads_end)
        base == Len(g)
        data == convolution.inputs[1]
        filters == convolution.inputs[2]
        pads_begin_node == Constant("i64", pads_begin)
        pads_end_node == Constant("i64", pads_end)
        pad_value == ScalarConstant(g[data].out_et, 0)
        padding == [Blank("Pad", <<data, base + 1, base + 2, base + 3>>, "") EXCEPT
                       !.pad_mode = "CONSTANT", !.out_et = g[data].out_et,
                       !.out_shape = PadShape(g[data].out_shape, pads_begin, pads_end)]
        g4 == g \o <<pads_begin_node, pads_end_node, pad_value, padding>>
        new_convolution == ForwardConv(convolution.kind, g4, <<base + 4, filters>>, convolution.strides,
                                       zero_pads(convolution), zero_pads(convolution), convolution.dilations, "EXPLICIT", "")
    IN  IF Len(convolution.inputs) # 2 THEN [ret |-> "false", line |-> 34, g |-> g]
        ELSE IF PadsEqual(pads_begin, pads_end) THEN [ret |-> "false", line |-> 41, g |-> g]
        ELSE IF Len(pads_begin) # Len(pads_end) THEN [ret |-> "abort", line |-> 43, g |-> g]
        ELSE IF ~PadValid(g[data].out_shape, pads_begin, pads_end) THEN [ret |-> "throw", line |-> 53, g |-> g]
        ELSE IF new_convolution.status # "ok" THEN [ret |-> "throw", line |-> 60, g |-> g]
        ELSE [ret |-> "true", line |-> 72,
              g |-> ReplaceNode(g4 \o <<Renamed(new_convolution.node, convolution)>>, id, base + 5)]

\* Lines 122-124: the output shape the pad-free replacement must produce.
Inflate(shape, pads_begin, pads_end) ==
    [i \in 1 .. Len(shape) |-> IF i <= Len(pads_begin) THEN pads_begin[i] + shape[i] + pads_end[i] ELSE shape[i]]

\* Line 168: new_convolution->validate_and_infer_types()
Revalidated(g1, built) ==
    IF built.status # "ok" THEN built
    ELSE FromInferred(built.node.kind, built.node.inputs, "",
                      IF built.node.kind = "FusedConvBackpropData"
                      THEN validate_and_infer_types(Inferred(g1, built.node))
                      ELSE conv_validate_and_infer_types(Inferred(g1, built.node)))

\* Lines 129-168: the replacement node and its validate_and_infer_types().
NewBackpropConv(g1, convolution, output_shape_id) ==
    LET data == convolution.inputs[1]
        filters == convolution.inputs[2]
        inputs == IF convolution.kind = "FusedConvBackpropData"
                  THEN IF Len(convolution.inputs) = 4
                       THEN <<data, filters, output_shape_id, convolution.inputs[4]>>
                       ELSE <<data, filters, output_shape_id, convolution.inputs[3]>>
                  ELSE <<data, filters, output_shape_id>>
    IN  Revalidated(g1, BackpropConv(convolution.kind, g1, inputs, convolution.strides, zero_pads(convolution), zero_pads(convolution),
                                     convolution.dilations, "EXPLICIT", convolution.output_padding, ""))

\* Lines 174-202: the StridedSlice over the replacement (node id conv_id).
Slice(g, convolution, new_conv, conv_id, input_rank) ==
    LET pads_begin == convolution.pads_begin
        pads_end == convolution.pads_end
        base == Len(g)
        begins == <<0, 0>> \o pads_begin
        ends == <<0, 0>> \o [i \in 1 .. Len(pads_end) |-> new_conv.out_shape.d[2 + i] - pads_end[i]]
        begin_mask == <<1, 1>> \o Fill(Len(pads_begin), 0)
        end_mask == <<1, 1>> \o Fill(Len(pads_end), 0)
        slice == [Blank("StridedSlice", <<conv_id, base + 1, base + 2, base + 3>>, "") EXCEPT
                     !.begin_mask = begin_mask, !.end_mask = end_mask, !.out_et = new_conv.out_et,
                     !.out_shape = StridedSliceShape(new_conv.out_shape, begins, ends, begin_mask, end_mask)]
    IN  g \o <<Constant("i64", begins), Constant("i64", ends), Constant("i64", Fill(input_rank, 1)), Renamed(slice, convolution)>>

\* Lines 204-211: replace_node, then Expects(old shape == slice shape).
ReplaceAndCheck(g, id, g6) ==
    IF g[id].out_shape # g6[Len(g6)].out_shape
    THEN [ret |-> "abort", line |-> 209, g |-> ReplaceNode(g6, id, Len(g6))]
    ELSE [ret |-> "true", line |-> 211, g |-> ReplaceNode(g6, id, Len(g6))]

\* Lines 168-211, new_convolution being the node lines 129-166 made.  The
\* field line of a result is the source line at which the callback returns,
\* throws or terminates; 168 stands for a failure anywhere in lines 129-168.
SliceAndReplace(g, id, g1, new_convolution) ==
    IF new_convolution.status = "validation_error" THEN [ret |-> "throw", line |-> 168, g |-> g]
    ELSE IF new_convolution.status = "expects_failed" THEN [ret |-> "abort", line |-> 168, g |-> g]
    ELSE IF GetShapeThrows(g[id].out_shape) THEN [ret |-> "throw", line |-> 170, g |-> g]
    ELSE IF GetShapeThrows(new_convolution.node.out_shape) THEN [ret |-> "throw", line |-> 171, g |-> g]
    ELSE IF g[id].out_shape = new_convolution.node.out_shape THEN [ret |-> "abort", line |-> 172, g |-> g]
    ELSE ReplaceAndCheck(g, id, Slice(g1 \o <<new_convolution.node>>, g[id], new_convolution.node, Len(g1) + 1, Len(g[g[id].inputs[1]].out_shape.d)))

\* convolution_backprop_data_with_padding<TBaseConvolution>.  The loop at
\* lines 122-124 indexes the output shape by the pads: an output shape with
\* fewer entries than pads is indexed out of range, which the graphs explored
\* never produce and which is taken here as a termination.
convolution_backprop_data_with_padding(g, id) ==
    LET convolution == g[id]
        pads_begin == convolution.pads_begin
        pads_end == convolution.pads_end
        data == convolution.inputs[1]
        conv_output_shape_data == get_output_shape(Inferred(g, convolution))
        fallback == IsDynamicShape(conv_output_shape_data)
        static_conv_output_shape_data == IF fallback THEN DropFirst(convolution.out_shape.d, 2) ELSE conv_output_shape_data.d
        base == Len(g)
        g1 == g \o <<Constant("i64", Inflate(static_conv_output_shape_data, pads_begin, pads_end))>>
    IN  IF PadsEqual(pads_begin, pads_end) THEN [ret |-> "false", line |-> 90, g |-> g]
        ELSE IF Len(pads_begin) # Len(pads_end) THEN [ret |-> "abort", line |-> 92, g |-> g]
        ELSE IF GetShapeThrows(g[data].out_shape) THEN [ret |-> "throw", line |-> 99, g |-> g]
        ELSE IF fallback /\ GetShapeThrows(convolution.out_shape) THEN [ret |-> "throw", line |-> 111, g |-> g]
        ELSE IF Len(static_conv_output_shape_data) < Len(pads_begin) THEN [ret |-> "abort", line |-> 123, g |-> g]
        ELSE SliceAndReplace(g, id, g1, NewBackpropConv(g1, convolution, base + 1))

\* The callback a pass registers for nodes of its kind (lines 219-280).
Callback(g, id) ==
    IF g[id].kind \in ForwardKinds
    THEN convolution_with_padding(g, id)
    ELSE convolution_backprop_data_with_padding(g, id)

(***************************************************************************)
(* SpecShape: calls of infer_conv_backprop_output_spatial_shape.           *)
(***************************************************************************)
NoCall == [called |-> FALSE, args |-> <<>>, result |-> [ok |-> FALSE, dims |-> <<>>]]
NoNode == [status |-> "none"]

\* The arguments of one call, in the order of the C++ parameters; dims is a
\* sequence of per-dimension records.
ArgsOf(dims) ==
    << [i \in 1 .. Len(dims) |-> dims[i].L], [i \in 1 .. Len(dims) |-> dims[i].F],
       [i \in 1 .. Len(dims) |-> dims[i].S], [i \in 1 .. Len(dims) |-> dims[i].D],
       [i \in 1 .. Len(dims) |-> dims[i].pb], [i \in 1 .. Len(dims) |-> dims[i].pe],
       [i \in 1 .. Len(dims) |-> dims[i].op] >>

FirstDims == [L : DataLens \cup {DYN}, F : FilterLens \cup {DYN}, S : StrideVals, D : StrideVals, pb : ShapePadVals, pe : ShapePadVals, op : OutPadVals]
MoreDims == [L : {MaxLen, DYN}, F : {1}, S : {1}, D : {2}, pb : {0, MaxPad}, pe : {0, MaxPad}, op : {0}]
PlainDims == [L : DataLens, F : {1}, S : {1}, D : {1}, pb : PadVals, pe : {0}, op : {0}]

DimSeqs(first) == {<<a>> : a \in first} \cup {<<a, b>> : a \in first, b \in MoreDims}

\* args with its k-th sequence one element short
Shorten(args, k) == [args EXCEPT ![k] = SubSeq(@, 1, Len(@) - 1)]

ShapeArgs ==
    {ArgsOf(ds) : ds \in DimSeqs(FirstDims)}
        \cup {Shorten(ArgsOf(ds), k) : ds \in DimSeqs(PlainDims), k \in 1 .. 7}

InferCall ==
    /\ ~shape_call.called
    /\ \E a \in ShapeArgs :
          shape_call' = [called |-> TRUE, args |-> a,
                         result |-> infer_conv_backprop_output_spatial_shape(a[1], a[2], a[3], a[4], a[5], a[6], a[7])]
    /\ UNCHANGED <<fnode, fclone, nodes, pass, phase, nodes_to_run, last, runlog, rewrites, passes_left, reference>>

InitIdle ==
    /\ shape_call = NoCall
    /\ fnode = NoNode
    /\ fclone = NoNode
    /\ nodes = <<>>
    /\ pass = "none"
    /\ phase = "off"
    /\ nodes_to_run = {}
    /\ last = [node |-> 0, ret |-> "none", line |-> 0]
    /\ runlog = <<>>
    /\ rewrites = 0
    /\ passes_left = {}
    /\ reference = NoNode

NextShape == InferCall

SpecShape == InitIdle /\ [][NextShape]_vars

(***************************************************************************)
(* C4                                                                      *)
(***************************************************************************)
SameLengths(a) == \A k \in 2 .. 7 : Len(a[k]) = Len(a[1])

\* S*(L-1) + D*(F-1) + 1 - Pb - Pe + Op in dimension i of the call a
Formula(a, i) == a[3][i] * (a[1][i] - 1) + a[4][i] * (a[2][i] - 1) + 1 - a[5][i] - a[6][i] + a[7][i]

BothStatic(a, i) == a[1][i] # DYN /\ a[2][i] # DYN

DataShape(r, l) == PS(<<2, 1>> \o Fill(r, l))
FiltersShape(r, f) == PS(<<1, 3>> \o Fill(r, f))

\* an add input that is not a constant: a tensor broadcastable to the output
AddParam(r, et) == Src(PS(<<2, 3>> \o Fill(r, 1)), et, FALSE, <<>>)
\* a constant add input: a vector of k elements, each 4
AddConst(k, et) == Src(PS(<<k>>), et, TRUE, Fill(k, 4))
\* the output-shape input: a constant vector of k elements, each 5, or the
\* output of a node that is no constant
OutShapeConst(k) == Src(PS(<<k>>), "i64", TRUE, Fill(k, 5))
OutShapeParam(k) == Src(PS(<<k>>), "i64", FALSE, <<>>)

Forms == {"3c", "3n", "4c", "4n"}

FusedIns(form, r, data, filters, add_et) ==
    CASE form = "3c" -> <<data, filters, AddConst(r, add_et)>>
      [] form = "3n" -> <<data, filters, AddParam(r, add_et)>>
      [] form = "4c" -> <<data, filters, OutShapeConst(r), AddParam(r, add_et)>>
      [] form = "4n" -> <<data, filters, OutShapeParam(r), AddParam(r, add_et)>>

\* Constructor arguments in which the static shapes and the attributes vary.
ShapeConfigs ==
    {[ins |-> FusedIns(form, 1, Src(DataShape(1, l), "f32", FALSE, <<>>), Src(FiltersShape(1, f), "f32", FALSE, <<>>), "f32"),
      strides |-> <<s>>, dilations |-> <<d>>, pads_begin |-> <<pb>>, pads_end |-> <<pe>>,
      auto_pad |-> ap, output_padding |-> <<op>>] :
        form \in Forms, l \in DataLens, f \in FilterLens, s \in StrideVals, d \in StrideVals,
        pb \in PadVals, pe \in PadVals, ap \in AutoPads, op \in OutPadVals}
    \cup
    {[ins |-> FusedIns(form, 2, Src(DataShape(2, l), "f32", FALSE, <<>>), Src(FiltersShape(2, f), "f32", FALSE, <<>>), "f32"),
      strides |-> <<s, s>>, dilations |-> <<1, 1>>, pads_begin |-> <<pb, pb2>>, pads_end |-> <<pe, pe2>>,
      auto_pad |-> ap, output_padding |-> <<0, 0>>] :
        form \in Forms, l \in DataLens, f \in FilterLens, s \in StrideVals,
        pb \in PadVals, pe \in PadVals, pb2 \in {0, 1}, pe2 \in {0, 1}, ap \in {"EXPLICIT", "SAME_LOWER"}}

\* Constructor arguments with a dynamic dimension or an unknown rank.
DynamicConfigs ==
    {[ins |-> FusedIns(form, 1, Src(ds, "f32", FALSE, <<>>), Src(FiltersShape(1, f), "f32", FALSE, <<>>), "f32"),
      strides |-> <<2>>, dilations |-> <<1>>, pads_begin |-> <<pb>>, pads_end |-> <<pe>>,
      auto_pad |-> ap, output_padding |-> <<1>>] :
        form \in Forms, ds \in {DataShape(1, MaxLen), DataShape(1, DYN), DynamicRank}, f \in {2, DYN},
        pb \in PadVals, pe \in PadVals, ap \in AutoPads}

\* Constructor arguments in which the element types vary.
TypeConfigs ==
    {[ins |-> FusedIns(form, 1, Src(DataShape(1, MaxLen), det, FALSE, <<>>), Src(FiltersShape(1, 2), fet, FALSE, <<>>), aet),
      strides |-> <<1>>, dilations |-> <<1>>, pads_begin |-> <<1>>, pads_end |-> <<0>>,
      auto_pad |-> ap, output_padding |-> <<0>>] :
        form \in Forms, det \in ElementTypes, fet \in ElementTypes, aet \in ElementTypes,
        ap \in {"EXPLICIT", "VALID"}}

\* Constructor arguments in which attributes are unset (empty) or of the
\* wrong length, and shapes of unknown rank.
SizeConfigs ==
    {[ins |-> FusedIns(form, 1, Src(ds, "f32", FALSE, <<>>), Src(fs, "f32", FALSE, <<>>), "f32"),
      strides |-> st, dilations |-> dl, pads_begin |-> pb, pads_end |-> pe,
      auto_pad |-> ap, output_padding |-> op] :
        form \in {"3c", "4c"}, ds \in {DataShape(1, MaxLen), DynamicRank},
        fs \in {FiltersShape(1, 2), DynamicRank},
        st \in {<<>>, <<2>>, <<2, 2>>}, dl \in {<<>>, <<1>>}, pb \in {<<>>, <<1>>, <<1, 1>>},
        pe \in {<<>>, <<0>>}, op \in {<<>>, <<0>>, <<0, 0>>}, ap \in {"EXPLICIT", "SAME_UPPER"}}

\* Constructor arguments whose add input has a dynamic shape.
DynamicAddConfigs ==
    {[c EXCEPT !.ins[Len(c.ins)].shape = ps] :
        c \in {t \in TypeConfigs : ~t.ins[Len(t.ins)].is_const /\ t.ins[1].et = t.ins[2].et},
        ps \in {PS(<<2, 3, DYN>>), DynamicRank}}

FusedConfigs == ShapeConfigs \cup DynamicConfigs \cup TypeConfigs \cup SizeConfigs \cup DynamicAddConfigs

\* make_shared<FusedConvBackpropData>(...)
FusedConstruct ==
    /\ phase = "off"
    /\ \E c \in FusedConfigs :
          fnode' = FusedConvBackpropData(c.ins, c.strides, c.pads_begin, c.pads_end, c.dilations, c.auto_pad, c.output_padding)
    /\ phase' = "constructed"
    /\ UNCHANGED <<shape_call, fclone, nodes, pass, nodes_to_run, last, runlog, rewrites, passes_left, reference>>

\* The data input is replaced by a source of element type et (same shape)
\* and validate_and_infer_types() is invoked again.
FusedRevalidate ==
    /\ phase = "constructed"
    /\ fnode.status = "ok"
    /\ \E et \in ElementTypes :
          fnode' = validate_and_infer_types([fnode EXCEPT !.ins[1].et = et])
    /\ phase' = "revalidated"
    /\ UNCHANGED <<shape_call, fclone, nodes, pass, nodes_to_run, last, runlog, rewrites, passes_left, reference>>

\* The input lists a clone is asked for: the node's own inputs, one input
\* fewer, one more, and its own inputs with the data replaced by a tensor
\* of another spatial length or of element type f16.
CloneArgs(n) ==
    {n.ins, SubSeq(n.ins, 1, Len(n.ins) - 1), n.ins \o <<n.ins[1]>>, [n.ins EXCEPT ![1].et = "f16"]}
        \cup {[n.ins EXCEPT ![1].shape = DataShape(Len(n.ins[2].shape.d) - 2, l)] : l \in IF n.ins[2].shape.rk THEN {1, MaxLen} ELSE {}}

\* node->clone_with_new_inputs(new_args)
FusedClone ==
    /\ phase = "constructed"
    /\ fnode.status = "ok"
    /\ \E new_args \in CloneArgs(fnode) :
          fclone' = clone_with_new_inputs(fnode, new_args)
    /\ phase' = "cloned"
    /\ UNCHANGED <<shape_call, fnode, nodes, pass, nodes_to_run, last, runlog, rewrites, passes_left, reference>>

NextFused == FusedConstruct \/ FusedRevalidate \/ FusedClone

SpecFused == InitIdle /\ [][NextFused]_vars

(***************************************************************************)
(* C5, C6, C7, C10                                                         *)
(***************************************************************************)
StaticDataAndFilters(n) == IsStaticShape(n.ins[1].shape) /\ IsStaticShape(n.ins[2].shape)

\* the transposed-convolution length of spatial dimension i of node n, from
\* its inputs and its current attributes
NodeFormula(n, i) ==
    n.strides[i] * (n.ins[1].shape.d[i + 2] - 1) + n.dilations[i] * (n.ins[2].shape.d[i + 2] - 1) + 1
        - n.pads_begin[i] - n.pads_end[i] + n.output_padding[i]

\* C5: a node built in the 4-input form (data, filters, output_shape, add)
\* with static data and filters and a constant output_shape has the output
\* shape [batch, filter output channels] followed by the output_shape values.
C5_FourInputOutputShape ==
    (/\ phase = "constructed"
     /\ fnode.status = "ok"
     /\ Len(fnode.ins) = 4
     /\ StaticDataAndFilters(fnode)
     /\ fnode.ins[3].is_const)
        => fnode.out_shape = PS(<<fnode.ins[1].shape.d[1], fnode.ins[2].shape.d[2]>> \o fnode.ins[3].value)

\* C6: a node built in the 3-input form (data, filters, add) with static
\* data and filters has zero pads under SAME_UPPER, SAME_LOWER and VALID and
\* the output shape [batch, filter output channels] followed by the lengths
\* of the transposed-convolution formula; add is never read as a shape.
C6_ThreeInputOutputShape ==
    (/\ phase = "constructed"
     /\ fnode.status = "ok"
     /\ Len(fnode.ins) = 3
     /\ StaticDataAndFilters(fnode))
        => /\ fnode.auto_pad # "EXPLICIT" =>
                /\ \A i \in 1 .. Len(fnode.pads_begin) : fnode.pads_begin[i] = 0
                /\ \A i \in 1 .. Len(fnode.pads_end) : fnode.pads_end[i] = 0
           /\ fnode.out_shape.rk
           /\ Len(fnode.out_shape.d) = Len(fnode.ins[1].shape.d)
           /\ fnode.out_shape.d[1] = fnode.ins[1].shape.d[1]
           /\ fnode.out_shape.d[2] = fnode.ins[2].shape.d[2]
           /\ \A i \in 1 .. Len(fnode.ins[1].shape.d) - 2 :
                 NodeFormula(fnode, i) >= 0 => fnode.out_shape.d[i + 2] = NodeFormula(fnode, i)

\* the element type of the add input of n
AddTypeOf(n) == n.ins[Len(n.ins)].et
Mergeable(n) == n.ins[1].et = "dynamic" \/ n.ins[2].et = "dynamic" \/ n.ins[1].et = n.ins[2].et
Merged(n) == IF n.ins[1].et = "dynamic" THEN n.ins[2].et ELSE n.ins[1].et

\* C7: a node whose construction or re-validation succeeded has the merge of
\* the data and filters element types as output element type, and that is
\* the element type of the add input; when the types do not merge, or the
\* merge is not the add type, the construction or re-validation fails.
C7_ElementType ==
    /\ fnode.status = "ok" =>
          /\ Mergeable(fnode)
          /\ fnode.out_et = Merged(fnode)
          /\ fnode.out_et = AddTypeOf(fnode)
    /\ (fnode.status # "none" /\ (~Mergeable(fnode) \/ Merged(fnode) # AddTypeOf(fnode)))
          => fnode.status \in {"validation_error", "expects_failed"}
    /\ (fclone.status = "ok" /\ Len(fclone.ins) = Len(fnode.ins)) =>
          /\ Mergeable(fclone)
          /\ fclone.out_et = Merged(fclone)
          /\ fclone.out_et = AddTypeOf(fclone)

\* a node built from a dynamic data type and f16 filters and add
C7_Witness ==
    /\ phase = "constructed"
    /\ fnode.status = "ok"
    /\ fnode.ins[1].et = "dynamic"
    /\ fnode.ins[2].et = "f16"
    /\ AddTypeOf(fnode) = "f16"
    /\ fnode.out_et = "f16"

SameAttributes(a, b) ==
    /\ a.strides = b.strides
    /\ a.dilations = b.dilations
    /\ a.pads_begin = b.pads_begin
    /\ a.pads_end = b.pads_end
    /\ a.auto_pad = b.auto_pad
    /\ a.output_padding = b.output_padding

\* C10 as stated: a clone asked for with as many inputs as the node has is a
\* node of the same form with the source's current attributes, and with the
\* node's own inputs also with its output shape and element type; with any
\* other number of inputs the clone fails.
C10_Original ==
    phase = "cloned" =>
        IF Len(fclone.ins) = Len(fnode.ins)
        THEN /\ fclone.status = "ok" => SameAttributes(fclone, fnode)
             /\ fclone.ins = fnode.ins =>
                   /\ fclone.status = "ok"
                   /\ fclone.out_shape = fnode.out_shape
                   /\ fclone.out_et = fnode.out_et
        ELSE fclone.status # "ok"

\* C10 as amended: the clone is constructed from the source's current
\* attributes.  With the node's own inputs it succeeds and has the same
\* attributes, output shape and element type.  With other inputs of the same
\* number, a clone that is produced has the source's auto_pad, its strides,
\* dilations and output_padding where the source had them set, and its pads
\* where the source had them set and auto_pad is EXPLICIT.  With any other
\* number of inputs the clone fails.
C10_Clone ==
    phase = "cloned" =>
        IF Len(fclone.ins) = Len(fnode.ins)
        THEN /\ fclone.ins = fnode.ins =>
                   /\ fclone.status = "ok"
                   /\ SameAttributes(fclone, fnode)
                   /\ fclone.out_shape = fnode.out_shape
                   /\ fclone.out_et = fnode.out_et
             /\ fclone.status = "ok" =>
                   /\ fclone.auto_pad = fnode.auto_pad
                   /\ Len(fnode.strides) > 0 => fclone.strides = fnode.strides
                   /\ Len(fnode.dilations) > 0 => fclone.dilations = fnode.dilations
                   /\ Len(fnode.output_padding) > 0 => fclone.output_padding = fnode.output_padding
                   /\ (fnode.auto_pad = "EXPLICIT" /\ Len(fnode.pads_begin) > 0) => fclone.pads_begin = fnode.pads_begin
                   /\ (fnode.auto_pad = "EXPLICIT" /\ Len(fnode.pads_end) > 0) => fclone.pads_end = fnode.pads_end
        ELSE fclone.status # "ok"

\* a 4-input node with unequal explicit pads cloned with its own inputs
C10_Witness ==
    /\ phase = "cloned"
    /\ fclone.status = "ok"
    /\ fclone.ins = fnode.ins
    /\ Len(fnode.ins) = 4
    /\ fnode.auto_pad = "EXPLICIT"
    /\ fnode.pads_begin = <<1, 0>>
    /\ fnode.pads_end = <<0, 1>>
    /\ fclone.pads_begin = <<1, 0>>
    /\ IsStaticShape(fclone.out_shape)

(***************************************************************************)
(* Spec: a matcher pass run over a graph                                   *)
(*     data, filters[, output_shape][, add] -> conv -> Result              *)
(*                                             conv, data -> Concat -> Result *)
(***************************************************************************)
GraphForms(kind) ==
    CASE kind \in ForwardKinds -> {"2"}
      [] kind = "FusedConvBackpropData" -> {"3c", "3n", "4c", "4n"}
      [] OTHER -> {"2", "3c", "3n"}

PadPairs(r) ==
    IF r = 1
    THEN {<< <<a>>, <<b>> >> : a \in PadVals, b \in PadVals}
    ELSE {<< <<a, a2>>, <<b, b2>> >> : a \in PadVals, b \in PadVals, a2 \in {0, 1}, b2 \in {0, 1}}

GraphConfigs ==
    [kind : ForwardKinds, form : {"2"}, r : {1}, l : DataLens, f : FilterLens, s : StrideVals, d : StrideVals,
     pads : PadPairs(1), op : {0}, ap : {"EXPLICIT"}]
    \cup
    [kind : ForwardKinds, form : {"2"}, r : {2}, l : DataLens, f : FilterLens, s : StrideVals, d : {1},
     pads : PadPairs(2), op : {0}, ap : {"EXPLICIT"}]
    \cup
    {c \in [kind : BackpropKinds, form : Forms \cup {"2"}, r : {1}, l : DataLens \cup {DYN}, f : FilterLens,
            s : StrideVals, d : StrideVals, pads : PadPairs(1), op : OutPadVals, ap : {"EXPLICIT", "SAME_UPPER"}] :
        c.form \in GraphForms(c.kind)}
    \cup
    {c \in [kind : BackpropKinds, form : Forms \cup {"2"}, r : {2}, l : DataLens, f : FilterLens,
            s : StrideVals, d : {1}, pads : PadPairs(2), op : {0}, ap : {"EXPLICIT"}] :
        c.form \in GraphForms(c.kind)}

\* the length the transposed convolution of configuration c produces in
\* spatial dimension i
ConfigLength(c, i) == c.s * (c.l - 1) + c.d * (c.f - 1) + 1 - c.pads[1][i] - c.pads[2][i] + c.op

Grouped(kind) == kind \in {"GroupConvolution", "GroupConvolutionBackpropData"}

\* the nodes feeding the convolution of configuration c
Sources(c) ==
    LET data == Parameter(PS(<<2, IF Grouped(c.kind) THEN 2 ELSE 1>> \o Fill(c.r, c.l)), "f32", "data")
        filters == Parameter(PS((CASE c.kind = "Convolution" -> <<3, 1>>
                                   [] c.kind = "GroupConvolution" -> <<2, 3, 1>>
                                   [] c.kind = "GroupConvolutionBackpropData" -> <<2, 1, 3>>
                                   [] OTHER -> <<1, 3>>) \o Fill(c.r, c.f)), "f32", "filters")
        add == Parameter(PS(<<2, 3>> \o Fill(c.r, 1)), "f32", "add")
        shape_param == Parameter(PS(<<c.r>>), "i64", "shape")
        fused == c.kind = "FusedConvBackpropData"
    IN  CASE c.form = "2" -> <<data, filters>>
          [] c.form = "3c" /\ fused -> <<data, filters, Constant("f32", Fill(c.r, 4))>>
          [] c.form = "3c" /\ ~fused -> <<data, filters, Constant("i64", [i \in 1 .. c.r |-> ConfigLength(c, i)])>>
          [] c.form = "3n" /\ fused -> <<data, filters, add>>
          [] c.form = "3n" /\ ~fused -> <<data, filters, shape_param>>
          [] c.form = "4c" -> <<data, filters, Constant("i64", Fill(c.r, 5)), add>>
          [] c.form = "4n" -> <<data, filters, shape_param, add>>

\* a constant output shape of a library node holds lengths
ConfigValid(c) ==
    (c.form = "3c" /\ c.kind # "FusedConvBackpropData" /\ c.l # DYN) => \A i \in 1 .. c.r : ConfigLength(c, i) >= 0

\* the convolution of configuration c over its sources, as constructed
BuildConv(c) ==
    LET g == Sources(c)
        inputs == [i \in 1 .. Len(g) |-> i]
    IN  IF c.kind \in ForwardKinds
        THEN ForwardConv(c.kind, g, inputs, Fill(c.r, c.s), c.pads[1], c.pads[2], Fill(c.r, c.d), c.ap, "conv")
        ELSE BackpropConv(c.kind, g, inputs, Fill(c.r, c.s), c.pads[1], c.pads[2], Fill(c.r, c.d), c.ap, Fill(c.r, c.op), "conv")

GraphOf(c) ==
    LET g == Sources(c)
        k == Len(g) + 1
    IN  g \o << [BuildConv(c).node EXCEPT !.rt_info = "fused_names:conv"],
               Blank("Result", <<k>>, "result"),
               Blank("Concat", <<k, 1>>, "concat"),
               Blank("Result", <<k + 2>>, "result2") >>

Init ==
    /\ shape_call = NoCall
    /\ fnode = NoNode
    /\ fclone = NoNode
    /\ \E c \in GraphConfigs :
          /\ c.form = "3c" /\ c.kind # "FusedConvBackpropData" => c.l # DYN
          /\ ConfigValid(c)
          /\ BuildConv(c).status = "ok"
          /\ nodes = GraphOf(c)
          /\ pass = c.kind
    /\ phase = "idle"
    /\ nodes_to_run = {}
    /\ last = [node |-> 0, ret |-> "none", line |-> 0]
    /\ runlog = <<>>
    /\ rewrites = 0
    /\ passes_left = {}
    /\ reference = NoNode

\* mutant: the matcher of a pass matches the nodes of every pass's kind
MatchingAnyKind == {i \in nodes_to_run : nodes[i].kind \in ForwardKinds \cup BackpropKinds}

\* the queued nodes the matcher of the running pass matches
Matching == {i \in nodes_to_run : nodes[i].kind = pass}

\* The pass starts a scan of the graph: the nodes of the graph are queued.
\* A node a callback creates is not queued, no callback registering one.
StartRun ==
    /\ phase = "idle"
    /\ Len(runlog) < MaxRuns
    /\ phase' = "running"
    /\ nodes_to_run' = Live(nodes)
    /\ rewrites' = 0
    /\ UNCHANGED <<shape_call, fnode, fclone, nodes, pass, last, runlog, passes_left, reference>>

\* The callback runs on a matched node.
RunCallback ==
    /\ phase = "running"
    /\ \E id \in Matching : \E res \in {Callback(nodes, id)} :
          /\ nodes' = res.g
          /\ last' = [node |-> id, ret |-> res.ret, line |-> res.line]
          /\ nodes_to_run' = nodes_to_run \ {id}
          /\ rewrites' = IF res.ret = "true" THEN rewrites + 1 ELSE rewrites
          /\ phase' = IF res.ret \in {"throw", "abort"} THEN "aborted" ELSE "running"
    /\ UNCHANGED <<shape_call, fnode, fclone, pass, runlog, passes_left, reference>>

\* No node is left to match: the scan is complete.
EndRun ==
    /\ phase = "running"
    /\ Matching = {}
    /\ phase' = "idle"
    /\ runlog' = Append(runlog, rewrites)
    /\ nodes_to_run' = {}
    /\ UNCHANGED <<shape_call, fnode, fclone, nodes, pass, last, rewrites, passes_left, reference>>

Next == StartRun \/ RunCallback \/ EndRun

Spec == Init /\ [][Next]_vars

(***************************************************************************)
(* Claims about the passes.                                                *)
(***************************************************************************)
\* a step in which the callback ran, on node last'.node of nodes
CallbackStep == phase = "running" /\ Matching # {} /\ last'.node \in nodes_to_run \ nodes_to_run'

Asymmetric(n) == n.pads_begin # n.pads_end

\* the node of arena g that the rewrite substituted for the matched one
Substituted(g) == g[Len(g)]

\* C1: for every pass, the callback on a matched node whose pads_begin
\* equals pads_end returns 'no rewrite' and the graph is the same before
\* and after the call.
C1_SymmetricUntouched ==
    [][(CallbackStep /\ ~Asymmetric(nodes[last'.node])) => (last'.ret = "false" /\ nodes' = nodes)]_vars

C1_Witness ==
    /\ phase = "running"
    /\ last.ret = "false"
    /\ nodes[last.node].kind = pass
    /\ ~Asymmetric(nodes[last.node])
    /\ \E i \in 1 .. Len(nodes[last.node].pads_begin) : nodes[last.node].pads_begin[i] # 0

StaticShapes(g, id) ==
    /\ IsStaticShape(g[id].out_shape)
    /\ \A k \in 1 .. Len(g[id].inputs) : IsStaticShape(g[g[id].inputs[k]].out_shape)

\* C2: for every node with asymmetric padding and static shapes the rewrite
\* completes, and the node substituted for the original has the original's
\* output shape.
C2_ShapePreserved ==
    [][(CallbackStep /\ Asymmetric(nodes[last'.node]) /\ StaticShapes(nodes, last'.node))
        => (last'.ret = "true" /\ Substituted(nodes').out_shape = nodes[last'.node].out_shape)]_vars

\* the nodes the graph held before any run
Original(i) == \E j \in 1 .. Len(nodes) : nodes[j].name = "result2" /\ i <= j

AllZero(pads) == \A i \in 1 .. Len(pads) : pads[i] = 0

\* C3: after one complete run of a pass a second run performs no rewrite:
\* every node of the pass's kind the first run introduced has zero pads and
\* every one it left in place has pads_begin = pads_end.
C3_Idempotent ==
    /\ Len(runlog) >= 2 => runlog[2] = 0
    /\ Len(runlog) >= 1 =>
          /\ phase # "aborted"
          /\ phase = "running" => rewrites = 0
          /\ \A i \in Live(nodes) : nodes[i].kind = pass =>
                /\ ~Asymmetric(nodes[i])
                /\ ~Original(i) => AllZero(nodes[i].pads_begin) /\ AllZero(nodes[i].pads_end)

C3_Witness == Len(runlog) = 2 /\ runlog[1] = 1 /\ runlog[2] = 0

\* the output shape of backprop node id of g cannot be resolved statically
Unresolved(g, id) ==
    /\ IsDynamicShape(get_output_shape(Inferred(g, g[id])))
    /\ IsDynamicShape(g[id].out_shape) \/ IsDynamicShape(g[g[id].inputs[1]].out_shape)

\* C8: the backprop callback on a node with asymmetric padding whose output
\* shape cannot be resolved statically returns 'no rewrite', raises nothing
\* and leaves the graph unchanged.
C8_DynamicDeclines ==
    [][(CallbackStep /\ pass \in BackpropKinds /\ Asymmetric(nodes[last'.node]) /\ Unresolved(nodes, last'.node))
        => (last'.ret = "false" /\ nodes' = nodes)]_vars

\* the kinds of the nodes a rewrite by the running pass adds, in order
AddedKinds ==
    IF pass \in ForwardKinds
    THEN <<"Constant", "Constant", "Constant", "Pad", pass>>
    ELSE <<"Constant", pass, "Constant", "Constant", "Constant", "StridedSlice">>

\* node i of g with every input fed by old fed by new instead
Rewired(n, old, new) == [n EXCEPT !.inputs = [k \in 1 .. Len(n.inputs) |-> IF n.inputs[k] = old THEN new ELSE n.inputs[k]]]

\* C9: a successful rewrite adds only the pass's constants, the Pad and
\* the replacement convolution, or the replacement convolution and the
\* StridedSlice; every consumer of the matched node consumes the substituted
\* node instead; every other node is as it was.
C9_Local ==
    [][(CallbackStep /\ last'.ret = "true") =>
        /\ Len(nodes') = Len(nodes) + Len(AddedKinds)
        /\ \A k \in 1 .. Len(AddedKinds) : nodes'[Len(nodes) + k].kind = AddedKinds[k]
        /\ \A i \in 1 .. Len(nodes) :
              nodes'[i] = IF i \in Consumers(nodes, last'.node) THEN Rewired(nodes[i], last'.node, Len(nodes')) ELSE nodes[i]
        /\ Consumers(nodes', last'.node) = {}
        /\ Consumers(nodes', Len(nodes')) = Consumers(nodes, last'.node)
        /\ \A i \in Len(nodes) + 1 .. Len(nodes') : \A k \in 1 .. Len(nodes'[i].inputs) :
              nodes'[i].inputs[k] \in {nodes[last'.node].inputs[j] : j \in 1 .. Len(nodes[last'.node].inputs)} \cup (Len(nodes) + 1 .. Len(nodes'))]_vars

C9_Witness ==
    /\ phase = "running"
    /\ last.ret = "true"
    /\ Cardinality(Consumers(nodes, Len(nodes))) = 2
    /\ Consumers(nodes, last.node) = {}

\* C11: a forward callback (Convolution, GroupConvolution) rewrites only a
\* node of two inputs whose [0,0]++pads_begin differs from [0,0]++pads_end;
\* the rewrite adds a CONSTANT-mode Pad of the data input with the pads
\* [0,0]++pads_begin and [0,0]++pads_end and the fill value 0, and a
\* replacement convolution of the Pad output and the original filters with
\* the original strides and dilations, zero pads and auto-pad EXPLICIT.
C11_ForwardRewrite ==
    [][(CallbackStep /\ pass \in ForwardKinds /\ last'.ret = "true") =>
        LET old == nodes[last'.node]
            b == Len(nodes)
        IN  /\ Len(old.inputs) = 2
            /\ <<0, 0>> \o old.pads_begin # <<0, 0>> \o old.pads_end
            /\ nodes'[b + 1].kind = "Constant" /\ nodes'[b + 1].value = <<0, 0>> \o old.pads_begin
            /\ nodes'[b + 2].kind = "Constant" /\ nodes'[b + 2].value = <<0, 0>> \o old.pads_end
            /\ nodes'[b + 3].kind = "Constant" /\ nodes'[b + 3].value = <<0>>
            /\ nodes'[b + 3].out_et = nodes[old.inputs[1]].out_et
            /\ nodes'[b + 4].kind = "Pad" /\ nodes'[b + 4].pad_mode = "CONSTANT"
            /\ nodes'[b + 4].inputs = <<old.inputs[1], b + 1, b + 2, b + 3>>
            /\ nodes'[b + 5].kind = old.kind
            /\ nodes'[b + 5].inputs = <<b + 4, old.inputs[2]>>
            /\ nodes'[b + 5].strides = old.strides
            /\ nodes'[b + 5].dilations = old.dilations
            /\ Len(nodes'[b + 5].pads_begin) = Len(old.pads_begin)
            /\ AllZero(nodes'[b + 5].pads_begin)
            /\ nodes'[b + 5].pads_end = nodes'[b + 5].pads_begin
            /\ nodes'[b + 5].auto_pad = "EXPLICIT"]_vars

\* a convolution over two spatial dimensions with pads_begin [1,0] and
\* pads_end [0,1] has been rewritten
C11_Witness ==
    /\ pass = "Convolution"
    /\ phase = "running"
    /\ last.ret = "true"
    /\ nodes[last.node].pads_begin = <<1, 0>>
    /\ nodes[last.node].pads_end = <<0, 1>>
    /\ nodes[Len(nodes) - 1].kind = "Pad"
    /\ nodes[Len(nodes) - 4].value = <<0, 0, 1, 0>>
    /\ nodes[Len(nodes) - 3].value = <<0, 0, 0, 1>>

\* the output shape the replacement is asked for: the original spatial
\* lengths with both pads added back
Inflated(old) == [i \in 1 .. Len(old.pads_begin) |-> old.out_shape.d[i + 2] + old.pads_begin[i] + old.pads_end[i]]

\* C12: a backprop rewrite adds a replacement transposed convolution with
\* zero pads, auto-pad EXPLICIT, the original strides, dilations and
\* output_padding and the constant output shape inflated[i] = original
\* spatial length + pads_begin[i] + pads_end[i], and a StridedSlice over it
\* with unit strides, batch and channel passed through by the masks, that
\* takes [pads_begin[i], inflated[i] - pads_end[i]) in spatial dimension i.
C12_BackpropRewrite ==
    [][(CallbackStep /\ pass \in BackpropKinds /\ last'.ret = "true") =>
        LET old == nodes[last'.node]
            b == Len(nodes)
            nsd == Len(old.pads_begin)
            conv == nodes'[b + 2]
            slice == nodes'[b + 6]
        IN  /\ conv.kind = old.kind
            /\ Len(conv.pads_begin) = nsd /\ AllZero(conv.pads_begin)
            /\ conv.pads_end = conv.pads_begin
            /\ conv.auto_pad = "EXPLICIT"
            /\ conv.strides = old.strides
            /\ conv.dilations = old.dilations
            /\ conv.output_padding = old.output_padding
            /\ conv.inputs[3] = b + 1
            /\ nodes'[b + 1].kind = "Constant" /\ nodes'[b + 1].value = Inflated(old)
            /\ slice.kind = "StridedSlice"
            /\ slice.inputs = <<b + 2, b + 3, b + 4, b + 5>>
            /\ nodes'[b + 5].value = Fill(nsd + 2, 1)
            /\ slice.begin_mask = <<1, 1>> \o Fill(nsd, 0)
            /\ slice.end_mask = <<1, 1>> \o Fill(nsd, 0)
            /\ nodes'[b + 3].value = <<0, 0>> \o old.pads_begin
            /\ nodes'[b + 4].value = <<0, 0>> \o [i \in 1 .. nsd |-> Inflated(old)[i] - old.pads_end[i]]
            /\ \A i \in 1 .. nsd : slice.out_shape.d[i + 2] = Inflated(old)[i] - old.pads_end[i] - old.pads_begin[i]]_vars

\* C13: in the backprop callback, a matched node with static shapes and
\* pads_begin # pads_end is never stopped by the assertion of line 172, that
\* the replacement convolution's output shape differs from the original's.
C13_ShapesDiffer ==
    [][(CallbackStep /\ pass \in BackpropKinds /\ Asymmetric(nodes[last'.node]) /\ StaticShapes(nodes, last'.node))
        => ~(last'.ret = "abort" /\ last'.line = 172)]_vars

\* C14: in the backprop callback, when the check of line 209 (the slice's
\* output shape equals the original node's) fails, the original node still
\* is in the graph with all its consumers attached, and no consumer reads
\* a replacement.
C14_CheckBeforeReplace ==
    [][(CallbackStep /\ pass \in BackpropKinds /\ last'.ret = "abort" /\ last'.line = 209) =>
        /\ Consumers(nodes', last'.node) = Consumers(nodes, last'.node)
        /\ \A i \in 1 .. Len(nodes) : nodes'[i] = nodes[i]
        /\ \A i \in Len(nodes) + 1 .. Len(nodes') : Consumers(nodes', i) \subseteq Len(nodes) + 1 .. Len(nodes')]_vars

\* the inputs of node id of arena g have static shapes
StaticInputs(g, id) == \A k \in 1 .. Len(g[id].inputs) : IsStaticShape(g[g[id].inputs[k]].out_shape)

\* C15: FusedConvBackpropData pass: for a matched fused node with asymmetric
\* padding (its inputs of static shape), with three inputs (add at index 2)
\* or four (add at index 3), the rewrite completes, and the replacement
\* fused node reads the original's data and filters at indices 0 and 1 and
\* the original's add source as its add input.
C15_FusedAddInput ==
    [][(CallbackStep /\ pass = "FusedConvBackpropData" /\ Asymmetric(nodes[last'.node]) /\ StaticInputs(nodes, last'.node)) =>
        LET old == nodes[last'.node]
            new == nodes'[Len(nodes) + 2]
        IN  /\ last'.ret = "true"
            /\ new.kind = "FusedConvBackpropData"
            /\ new.inputs[1] = old.inputs[1]
            /\ new.inputs[2] = old.inputs[2]
            /\ new.inputs[4] = old.inputs[IF Len(old.inputs) = 4 THEN 4 ELSE 3]]_vars

\* RunCallback as seen on the queue: the engine takes a matched node off the
\* queue.  Under Next a step is a TakeMatch step exactly when it is a
\* RunCallback step, and the two are enabled in the same states, the
\* callback always leaving by a return, an exception or a termination.
TakeMatch == phase = "running" /\ \E id \in Matching : nodes_to_run' = nodes_to_run \ {id}

\* The scans of a pass under the engine's scheduling: the engine is a
\* sequential loop, a step that can be taken is taken.
SpecFair == Spec /\ WF_vars(StartRun) /\ WF_nodes_to_run(TakeMatch) /\ WF_vars(EndRun)

\* the nodes of graph g of the pass's kind that have asymmetric padding
AsymmetricNodes(g) == {i \in Live(g) : g[i].kind = pass /\ Asymmetric(g[i])}

\* a scan has completed without a rewrite
FixedPoint == phase = "idle" /\ Len(runlog) > 0 /\ runlog[Len(runlog)] = 0

\* C16: scanning to a fixed point terminates: each successful rewrite takes
\* one node out of the nodes of the pass's kind with asymmetric padding and
\* adds none, a callback that declines leaves them as they are, and
\* eventually a scan completes without a rewrite or the run is aborted.
C16_Terminates ==
    /\ [][(CallbackStep /\ last'.ret = "true") =>
            /\ Asymmetric(nodes[last'.node])
            /\ AsymmetricNodes(nodes') = AsymmetricNodes(nodes) \ {last'.node}
            /\ Cardinality(AsymmetricNodes(nodes')) = Cardinality(AsymmetricNodes(nodes)) - 1
            /\ \A i \in Len(nodes) + 1 .. Len(nodes') : nodes'[i].kind = pass => ~Asymmetric(nodes'[i])]_vars
    /\ [][(CallbackStep /\ last'.ret = "false") => AsymmetricNodes(nodes') = AsymmetricNodes(nodes)]_vars
    /\ <>(phase = "aborted" \/ FixedPoint)

C16_Witness ==
    /\ FixedPoint
    /\ runlog = <<1, 0>>
    /\ last.ret = "false"
    /\ AsymmetricNodes(nodes) = {}
    /\ \E i \in 1 .. Len(nodes) : nodes[i].kind = pass /\ Asymmetric(nodes[i])

(***************************************************************************)
(* SpecPasses: the five passes, each scanned to its fixed point, run in    *)
(* any order over a graph with two convolutions                            *)
(*     data, filters.. -> conv -> Result                                   *)
(*     conv, filters2  -> conv2 -> Result                                  *)
(***************************************************************************)
\* the kinds the five passes match, in the order of their definitions
\* (lines 219, 232, 245, 258, 271)
PassOrder ==
    <<"Convolution", "GroupConvolution", "ConvolutionBackpropData", "GroupConvolutionBackpropData", "FusedConvBackpropData">>

PassKinds == {PassOrder[i] : i \in 1 .. Len(PassOrder)}

\* the first convolution of a chain
ChainFirst ==
    {c \in GraphConfigs : /\ c.r = 1 /\ c.l = MaxLen /\ c.f = 1 /\ c.s = 1 /\ c.d = 1 /\ c.op = 0 /\ c.ap = "EXPLICIT"
                          /\ c.form \in {"2", "4c"}}

\* the pads of the second convolution
ChainPads == {<< <<a>>, <<b>> >> : a \in {0, MaxPad}, b \in {0, MaxPad}}

ChainKinds == {"Convolution", "GroupConvolution", "ConvolutionBackpropData", "GroupConvolutionBackpropData"}

ChainConfigs == [a : ChainFirst, kind : ChainKinds, pads : ChainPads]

\* the filters of a second convolution of the given kind over c channels
ChainFilters(kind, c) ==
    Parameter(PS(CASE kind = "Convolution" -> <<1, c, 1>>
                   [] kind = "GroupConvolution" -> <<1, 1, c, 1>>
                   [] kind = "GroupConvolutionBackpropData" -> <<1, c, 1, 1>>
                   [] OTHER -> <<c, 1, 1>>), "f32", "filters2")

\* the second convolution of chain x, reading node a of g as its data
ChainSecond(x, g, a) ==
    IF x.kind \in ForwardKinds
    THEN ForwardConv(x.kind, g, <<a, a + 1>>, <<1>>, x.pads[1], x.pads[2], <<1>>, "EXPLICIT", "conv2")
    ELSE BackpropConv(x.kind, g, <<a, a + 1>>, <<1>>, x.pads[1], x.pads[2], <<1>>, "EXPLICIT", <<0>>, "conv2")

\* the graph of chain x up to the filters of its second convolution
ChainSources(x) ==
    LET g == Sources(x.a) \o <<[BuildConv(x.a).node EXCEPT !.rt_info = "fused_names:conv"]>>
    IN  g \o <<ChainFilters(x.kind, g[Len(g)].out_shape.d[2])>>

ChainValid(x) ==
    /\ ConfigValid(x.a)
    /\ BuildConv(x.a).status = "ok"
    /\ BuildConv(x.a).node.out_shape.rk
    /\ ChainSecond(x, ChainSources(x), Len(ChainSources(x)) - 1).status = "ok"

ChainOf(x) ==
    LET g == ChainSources(x)
        a == Len(g) - 1
    IN  g \o << [ChainSecond(x, g, a).node EXCEPT !.rt_info = "fused_names:conv2"],
               Blank("Result", <<a + 2>>, "result"),
               Blank("Result", <<a>>, "result2") >>

\* The graph as a set of terms, one per Result: a node with the terms of
\* its inputs in the place of the inputs.  Two arenas have the same terms
\* when they hold the same graph up to the identity of the nodes.
RECURSIVE Term(_, _)
Term(g, i) == [g[i] EXCEPT !.inputs = [k \in 1 .. Len(g[i].inputs) |-> Term(g, g[i].inputs[k])]]

Canon(g) == {Term(g, i) : i \in {j \in 1 .. Len(g) : g[j].kind = "Result"}}

\* One scan of the pass of the given kind over the queued nodes, lowest
\* node first; n counts the rewrites.
RECURSIVE ScanFrom(_, _, _, _)
ScanStep(g, kind, queue, n, id, res) ==
    IF res.ret \in {"throw", "abort"} THEN [status |-> "aborted", g |-> res.g, n |-> n]
    ELSE ScanFrom(res.g, kind, queue \ {id}, IF res.ret = "true" THEN n + 1 ELSE n)

ScanFrom(g, kind, queue, n) ==
    IF \A i \in queue : g[i].kind # kind THEN [status |-> "ok", g |-> g, n |-> n]
    ELSE ScanStep(g, kind, queue, n, CHOOSE i \in queue : g[i].kind = kind /\ \A j \in queue : g[j].kind = kind => i <= j,
                  Callback(g, CHOOSE i \in queue : g[i].kind = kind /\ \A j \in queue : g[j].kind = kind => i <= j))

\* The pass of the given kind scanned until a scan rewrites nothing, at
\* most scans times.
RECURSIVE FixedPointOf(_, _, _)
Rescanned(r, kind, scans) == IF r.status = "ok" /\ r.n > 0 /\ scans > 1 THEN FixedPointOf(r.g, kind, scans - 1) ELSE r

FixedPointOf(g, kind, scans) == Rescanned(ScanFrom(g, kind, Live(g), 0), kind, scans)

\* The passes from the i-th on, in the order of their definitions.
RECURSIVE RunPasses(_, _)
RunPasses(r, i) ==
    IF i > Len(PassOrder) \/ r.status # "ok" THEN r
    ELSE RunPasses(FixedPointOf(r.g, PassOrder[i], MaxRuns), i + 1)

Outcome(r) == [status |-> r.status, graph |-> IF r.status = "ok" THEN Canon(r.g) ELSE {}]

InitPasses ==
    /\ shape_call = NoCall
    /\ fnode = NoNode
    /\ fclone = NoNode
    /\ \E x \in ChainConfigs :
          /\ ChainValid(x)
          /\ nodes = ChainOf(x)
          /\ reference = Outcome(RunPasses([status |-> "ok", g |-> ChainOf(x), n |-> 0], 1))
    /\ pass = "none"
    /\ passes_left = PassKinds
    /\ phase = "idle"
    /\ nodes_to_run = {}
    /\ last = [node |-> 0, ret |-> "none", line |-> 0]
    /\ runlog = <<>>
    /\ rewrites = 0

\* the pass that ran last has reached its fixed point
PassComplete == IF runlog = <<>> THEN TRUE ELSE runlog[Len(runlog)] = 0 \/ Len(runlog) = MaxRuns

\* Some pass not yet run starts its first scan.
StartPass ==
    /\ phase = "idle"
    /\ PassComplete
    /\ \E kind \in passes_left :
          /\ pass' = kind
          /\ passes_left' = passes_left \ {kind}
    /\ phase' = "running"
    /\ nodes_to_run' = Live(nodes)
    /\ rewrites' = 0
    /\ runlog' = <<>>
    /\ UNCHANGED <<shape_call, fnode, fclone, nodes, last, reference>>

\* The running pass scans again after a scan that rewrote a node.
Rescan ==
    /\ phase = "idle"
    /\ ~PassComplete
    /\ phase' = "running"
    /\ nodes_to_run' = Live(nodes)
    /\ rewrites' = 0
    /\ UNCHANGED <<shape_call, fnode, fclone, nodes, pass, last, runlog, passes_left, reference>>

NextPasses == StartPass \/ Rescan \/ RunCallback \/ EndRun

SpecPasses == InitPasses /\ [][NextPasses]_vars

\* every pass has run to its fixed point
AllPassesDone == phase = "idle" /\ passes_left = {} /\ pass # "none" /\ PassComplete

\* C17: the passes are independent: a pass rewrites only nodes of its own
\* kind and adds, besides constants, pads and slices, only nodes of its own
\* kind; and in whatever order the five passes run to their fixed points
\* and a pass takes its matches, the final graph is the one the passes leave
\* when run in the order of their definitions, up to the identity of the
\* nodes (and a run is aborted in one order exactly when it is in all).
C17_Independent ==
    /\ [][CallbackStep =>
            /\ nodes[last'.node].kind = pass
            /\ \A i \in Len(nodes) + 1 .. Len(nodes') : nodes'[i].kind \in {pass, "Constant", "Pad", "StridedSlice"}
            /\ \A i \in 1 .. Len(nodes) : nodes'[i].kind = nodes[i].kind]_vars
    /\ [](AllPassesDone => (reference.status = "ok" /\ Canon(nodes) = reference.graph))
    /\ [](phase = "aborted" => reference.status = "aborted")

\* both convolutions of a chain of two kinds have been rewritten, the second
\* one first
C17_Witness ==
    /\ AllPassesDone
    /\ reference.status = "ok"
    /\ \E r \in 1 .. Len(nodes) :
          /\ nodes[r].name = "result2"
          /\ \E i, j \in 1 .. r :
                /\ nodes[i].name = "conv" /\ nodes[j].name = "conv2"
                /\ nodes[i].kind # nodes[j].kind
                /\ Asymmetric(nodes[i]) /\ Asymmetric(nodes[j])
          /\ \E k, m \in (r + 1) .. Len(nodes) : k < m /\ nodes[k].name = "conv2" /\ nodes[m].name = "conv"

==============================================================================
